---- MODULE Spec2Model ----
(***************************************************************************)
(* NotesMate backend (src/backend/api/index.py): a Flask application whose *)
(* handlers each open their own database connection, run a few SQL         *)
(* statements and answer with (JSON body, HTTP status).                    *)
(*                                                                         *)
(* The model keeps the committed database tables as sets of rows, one      *)
(* program counter per worker, and the locals a handler carries from one   *)
(* SQL statement to the next.  One step of a worker is one SQL statement   *)
(* together with the Python code around it.                                *)
(***************************************************************************)
EXTENDS Integers, Sequences, FiniteSets, TLC

\* ------------------------------------------------------------------ bounds
MaxTime == 6         \* the clock runs from minute 0 to minute MaxTime
MaxIssued == 2       \* OTP records issued in one run
NumCodes == 2        \* codes random.randint is drawn from: OtpLow .. OtpLow + NumCodes - 1
MaxClients == 2      \* clients registered per organization
MaxNotes == 2        \* notes saved in one run
MaxNoteTime == 3     \* the clock of the runs that save notes: 0 .. MaxNoteTime
DayLength == 2       \* clock ticks in a calendar day

\* -------------------------------------------------------- program constants
OtpLow == 1000       \* random.randint(1000, 9999)
OtpTtlMinutes == 5   \* timedelta(minutes=5)

\* ------------------------------------------------------------ value domains
\* A JSON field or SQL column that may be absent/null: <<>> is None, <<x>> is x.
None == <<>>
Some(x) == <<x>>
Val(v) == v[1]

Workers == {1, 2}
OrgIds == {1, 2}
EmpIds == {1, 2}
Codes == {OtpLow + i : i \in 0 .. (NumCodes - 1)}

\* psycopg2.connect(..) sets no isolation level: the transactions run at the
\* level the database server is configured with.
IsolationLevels == {"read committed", "serializable"}

\* Python truthiness of an optional int / an optional str ("not x").
TruthyInt(v) == v # None /\ Val(v) # 0
TruthyStr(v) == v # None /\ Val(v) # ""

\* str(n): a Python str is never equal to a Python int, so the type is kept.
StrOf(n) == <<"str", n>>

\* The two numbers run together, nothing between them.
OtpKeyNoSeparator(orgid, empid) == ToString(orgid) \o ToString(empid)

\* f"{orgid}-{empid}"
OtpKey(orgid, empid) == ToString(orgid) \o "-" \o ToString(empid)

VARIABLES
    clock,          \* datetime.utcnow(), in whole minutes
    awareTz,        \* the otps.created_at column is TIMESTAMP WITH TIME ZONE
    isolation,      \* the isolation level of the database transactions
    organizations,  \* table organizations: committed rows
    employees,      \* table employees: committed rows
    clients,        \* table clients: committed rows
    otps,           \* table otps: committed rows
    notes,          \* table notes: committed rows
    notes_seq,      \* sequence notes_seq: the value nextval returned last
    db_initialized, \* the module's flag: init_db has succeeded in this process
    pc,             \* pc[w]: where worker w is in its handler ("idle": none)
    req,            \* req[w]: the JSON body worker w is handling
    loc,            \* loc[w]: the handler's local variables
    last,           \* the most recent response sent, with its request
    ledger          \* history: every OTP record issued, in order of commit

dbVars == <<organizations, employees, clients, otps>>
envVars == <<clock, awareTz, isolation>>
noteVars == <<notes, notes_seq>>
procVars == <<db_initialized>>
vars == <<clock, awareTz, isolation, organizations, employees, clients, otps, notes, notes_seq,
          db_initialized, pc, req, loc, last, ledger>>

NoReq == [op |-> "none"]
NoLoc == [none |-> TRUE]
NoLast == [req |-> NoReq, status |-> 0, body |-> [none |-> TRUE], mail |-> "not_attempted", elapsed |-> 0]


\* ---------------------------------------------------------------- responses
\* str(e) of the exceptions the handlers' catch-all "except Exception" turns
\* into a 500 response.
ErrIntOfNone == "Unexpected error: int() argument must be a string, a bytes-like object or a real number, not 'NoneType'"
ErrNaiveAware == "Unexpected error: can't subtract offset-naive and offset-aware datetimes"
ErrSerialization == "Unexpected error: restart transaction: could not serialize access due to concurrent update"

\* return jsonify(body), status: the handler ends, its connection is closed
\* (whatever it did not commit is rolled back) and the worker is free again.
\* `last` keeps the response with two notes on how it came about: what became
\* of the e-mail, and the age of the OTP record the handler computed.
ReplyNoting(w, data, status, body, mail, elapsed) ==
    /\ pc' = [pc EXCEPT ![w] = "idle"]
    /\ req' = [req EXCEPT ![w] = NoReq]
    /\ loc' = [loc EXCEPT ![w] = NoLoc]
    /\ last' = [req |-> data, status |-> status, body |-> body, mail |-> mail, elapsed |-> elapsed]

Reply(w, data, status, body) == ReplyNoting(w, data, status, body, "not_attempted", 0)

\* The handler goes on to its next SQL statement.
Goto(w, data, label, locals) ==
    /\ pc' = [pc EXCEPT ![w] = label]
    /\ req' = [req EXCEPT ![w] = data]
    /\ loc' = [loc EXCEPT ![w] = locals]
    /\ UNCHANGED last

\* ------------------------------------------------------------- table otps
\* SELECT otp, created_at FROM otps WHERE key = %s
SelectOtp(key) == {r \in otps : r.key = key}

\* The statement below as a plain INSERT on a table without a key.
InsertOnlyOtp(table, key, otp, created_at) ==
    table \cup {[key |-> key, otp |-> otp, created_at |-> created_at]}

\* The statement below with ON CONFLICT (key) DO NOTHING.
KeepOldOtp(table, key, otp, created_at) ==
    IF \E r \in table : r.key = key
    THEN table
    ELSE table \cup {[key |-> key, otp |-> otp, created_at |-> created_at]}

\* INSERT INTO otps (key, otp, created_at) VALUES (..)
\*   ON CONFLICT (key) DO UPDATE SET otp = .., created_at = ..
UpsertOtp(table, key, otp, created_at) ==
    {r \in table : r.key # key} \cup {[key |-> key, otp |-> otp, created_at |-> created_at]}

\* DELETE FROM otps WHERE key = %s
DeleteOtp(table, key) == {r \in table : r.key # key}

\* The comparison below left out.
NeverExpired(current_time, created_at) == FALSE

\* current_time - created_at > timedelta(minutes=5)
Expired(current_time, created_at) == current_time - created_at > OtpTtlMinutes

\* stored_otp != entered_otp
Mismatch(stored_otp, entered_otp) == stored_otp # entered_otp

\* ------------------------------------------------------- history of issues
\* The index in the ledger of the record the otps row of `key` was written by
\* (the version of the row).
CurrentIssue(key) ==
    LET mine == {i \in 1 .. Len(ledger) : ledger[i].key = key}
    IN IF mine = {} THEN 0 ELSE CHOOSE i \in mine : \A j \in mine : j <= i

Issue(key, otp) ==
    LET cur == CurrentIssue(key)
        old == [i \in 1 .. Len(ledger) |->
                  IF i = cur /\ SelectOtp(key) # {}
                  THEN [ledger[i] EXCEPT !.overwritten = TRUE]
                  ELSE ledger[i]]
    IN Append(old, [key |-> key, otp |-> otp, overwritten |-> FALSE, uses |-> 0])

IssueBudget ==
    Len(ledger) + Cardinality({v \in Workers : pc[v] = "ro_upsert"}) < MaxIssued

\* ------------------------------------------------- POST /api/request-otp
\* SELECT empemail FROM employees WHERE orgid = %s AND empid = %s
SelectEmployee(orgid, empid) == {e \in employees : e.orgid = orgid /\ e.empid = empid}

\* Parsing, validation and the SELECT of the employee's email.
request_otp(w, data) ==
    /\ pc[w] = "idle"
    /\ data.op = "request-otp"
    /\ UNCHANGED <<dbVars, envVars, noteVars, procVars, ledger>>
    /\ IF data.orgId = None \/ data.empId = None
       THEN Reply(w, data, 500, [error |-> ErrIntOfNone])
       ELSE LET orgid == Val(data.orgId)
                empid == Val(data.empId)
                found == SelectEmployee(orgid, empid)
            IN IF orgid = 0 \/ empid = 0
               THEN Reply(w, data, 400, [error |-> "orgid and empid are required"])
               ELSE IF found = {}
               THEN Reply(w, data, 404, [error |-> "No employee found with this orgid and empid"])
               ELSE \E employee \in found :
                      IF ~TruthyStr(employee.empemail)
                      THEN Reply(w, data, 400, [error |-> "Employee email not found"])
                      ELSE /\ IssueBudget
                           /\ \E n \in Codes :
                                Goto(w, data, "ro_upsert",
                                     [empemail |-> employee.empemail,
                                      otp |-> StrOf(n),
                                      otp_key |-> OtpKey(orgid, empid),
                                      created_at |-> clock])

\* The upsert of the OTP record and conn.commit().
request_otp_upsert(w) ==
    /\ pc[w] = "ro_upsert"
    /\ otps' = UpsertOtp(otps, loc[w].otp_key, loc[w].otp, loc[w].created_at)
    /\ ledger' = Issue(loc[w].otp_key, loc[w].otp)
    /\ Goto(w, req[w], "ro_send", loc[w])
    /\ UNCHANGED <<organizations, employees, clients, envVars, noteVars, procVars>>

\* send_otp_email: True when the SMTP conversation went through, False when
\* anything in it raised.
send_otp_email(to_email, otp, delivered) == delivered

\* The e-mail and the response.
request_otp_send(w) ==
    /\ pc[w] = "ro_send"
    /\ UNCHANGED <<dbVars, envVars, noteVars, procVars, ledger>>
    /\ \E configured \in BOOLEAN, delivered \in BOOLEAN :
         IF configured
         THEN IF send_otp_email(loc[w].empemail, loc[w].otp, delivered)
              THEN ReplyNoting(w, req[w], 200, [message |-> "OTP sent to your registered email address"], "sent", 0)
              ELSE ReplyNoting(w, req[w], 200, [message |-> "Failed to send OTP via email. Check the server logs for the OTP."], "failed", 0)
         ELSE /\ ~delivered
              /\ ReplyNoting(w, req[w], 200, [message |-> "Email service not configured. Check the server logs for the OTP."], "not_configured", 0)

\* ------------------------------------------------ POST /api/validate-otp
\* Parsing, validation and the SELECT of the OTP record.
validate_otp(w, data) ==
    /\ pc[w] = "idle"
    /\ data.op = "validate-otp"
    /\ UNCHANGED <<dbVars, envVars, noteVars, procVars, ledger>>
    /\ IF data.orgId = None \/ data.empId = None
       THEN Reply(w, data, 500, [error |-> ErrIntOfNone])
       ELSE LET orgid == Val(data.orgId)
                empid == Val(data.empId)
                otp_key == OtpKey(orgid, empid)
            IN IF orgid = 0 \/ empid = 0 \/ data.otp = None
               THEN Reply(w, data, 400, [error |-> "orgid, empid, and OTP are required"])
               ELSE IF SelectOtp(otp_key) = {}
               THEN Reply(w, data, 400, [error |-> "OTP not found or expired"])
               ELSE \E result \in SelectOtp(otp_key) :
                      Goto(w, data, "vo_check",
                           [otp_key |-> otp_key,
                            stored_otp |-> result.otp,
                            created_at |-> result.created_at,
                            issue |-> CurrentIssue(otp_key)])

\* cursor.execute("DELETE ..") in a transaction that has read the row: at
\* SERIALIZABLE the statement raises when another transaction has committed a
\* change of the row since it was read; at READ COMMITTED it deletes what is
\* there now, possibly nothing.
DeleteRaises(w) ==
    /\ isolation = "serializable"
    /\ SelectOtp(loc[w].otp_key) = {} \/ CurrentIssue(loc[w].otp_key) # loc[w].issue

\* The expiry check, the comparison and the DELETE with its commit.
validate_otp_check(w) ==
    /\ pc[w] = "vo_check"
    /\ UNCHANGED <<organizations, employees, clients, envVars, noteVars, procVars>>
    /\ LET current_time == clock
           entered_otp == Val(req[w].otp)
           elapsed == current_time - loc[w].created_at
       IN IF awareTz
          THEN /\ Reply(w, req[w], 500, [error |-> ErrNaiveAware])
               /\ UNCHANGED <<otps, ledger>>
          ELSE IF Expired(current_time, loc[w].created_at) /\ DeleteRaises(w)
          THEN /\ Reply(w, req[w], 500, [error |-> ErrSerialization])
               /\ UNCHANGED <<otps, ledger>>
          ELSE IF Expired(current_time, loc[w].created_at)
          THEN /\ otps' = DeleteOtp(otps, loc[w].otp_key)
               /\ ReplyNoting(w, req[w], 400, [error |-> "OTP expired"], "not_attempted", elapsed)
               /\ UNCHANGED ledger
          ELSE IF Mismatch(loc[w].stored_otp, entered_otp)
          THEN /\ ReplyNoting(w, req[w], 400, [error |-> "Invalid OTP"], "not_attempted", elapsed)
               /\ UNCHANGED <<otps, ledger>>
          ELSE IF DeleteRaises(w)
          THEN /\ Reply(w, req[w], 500, [error |-> ErrSerialization])
               /\ UNCHANGED <<otps, ledger>>
          ELSE /\ otps' = DeleteOtp(otps, loc[w].otp_key)
               /\ ledger' = [ledger EXCEPT ![loc[w].issue].uses = @ + 1]
               /\ ReplyNoting(w, req[w], 200,
                              [message |-> "OTP validated successfully",
                               orgId |-> Val(req[w].orgId), empId |-> Val(req[w].empId)],
                              "not_attempted", elapsed)

\* ------------------------------------------------------------------ time
Tick ==
    /\ clock < MaxTime
    /\ clock' = clock + 1
    /\ UNCHANGED <<awareTz, isolation, dbVars, noteVars, procVars, pc, req, loc, last, ledger>>


\* ------------------------------------------- tables of the notes registry
\* The SELECT below finding no row, whatever is stored.
NoOrgFound(orgid) == FALSE

\* SELECT * FROM organizations WHERE orgid = %s: fetchone() finds a row
OrgExists(orgid) == \E o \in organizations : o.orgid = orgid

\* SELECT * FROM employees WHERE orgid = %s AND empid = %s
EmployeeExists(orgid, empid) == \E e \in employees : e.orgid = orgid /\ e.empid = empid

\* The SELECT below finding a row, whatever is stored.
AnyClientFound(orgid, clientid) == TRUE

\* SELECT * FROM clients WHERE orgid = %s AND clientid = %s
ClientExists(orgid, clientid) == \E c \in clients : c.orgid = orgid /\ c.clientid = clientid

\* The keys of the registry tables, orgid, (orgid, empid) and (orgid,
\* clientid): the database refuses a row whose key is stored already by the
\* time the transaction writes it, and the statement raises.
OrgKeyRefuses(rows) == \E o \in rows : OrgExists(o.orgid)
EmployeeKeyRefuses(orgid, empid) == EmployeeExists(orgid, empid)
\* A clients table without a key refuses nothing.
NoClientKey(orgid, clientid) == FALSE

ClientKeyRefuses(orgid, clientid) == ClientExists(orgid, clientid)

ErrDuplicateKey == "Unexpected error: duplicate key value violates unique constraint"

\* all([...]) over the eleven fields of a register body
AllRegisterFields(data) ==
    /\ TruthyInt(data.orgId) /\ TruthyStr(data.orgName) /\ TruthyStr(data.shortname)
    /\ TruthyStr(data.address) /\ TruthyStr(data.orgPhone) /\ TruthyStr(data.orgEmail)
    /\ TruthyInt(data.empId) /\ TruthyStr(data.empName) /\ TruthyStr(data.empShortname)
    /\ TruthyStr(data.empPhone) /\ TruthyStr(data.empEmail)

OrgRow(data) ==
    [orgid |-> Val(data.orgId), orgname |-> data.orgName, shortname |-> data.shortname,
     address |-> data.address, phone |-> data.orgPhone, email |-> data.orgEmail]

EmpRow(data) ==
    [empid |-> Val(data.empId), orgid |-> Val(data.orgId), empname |-> data.empName,
     empshortname |-> data.empShortname, empphone |-> data.empPhone, empemail |-> data.empEmail]

\* ---------------------------------------------------- POST /api/register
\* conn.close() on a connection whose transaction was not committed: the rows
\* it inserted (`pending`) are rolled back.
CommitPending(table, pending) == table \cup pending

Rollback(table, pending) == table

\* Another worker's open transaction has inserted an organization `orgid`
\* and not yet committed or rolled back: an INSERT of the same key waits.
OrgInsertWaits(w, orgid) ==
    \E v \in Workers \ {w} :
        /\ pc[v] \in {"rg_select", "rg_insert"}
        /\ \E o \in loc[v].inserted_org : o.orgid = orgid

\* Parsing, validation and the SELECT of the organization.
register(w, data) ==
    /\ pc[w] = "idle"
    /\ data.op = "register"
    /\ UNCHANGED <<dbVars, envVars, noteVars, procVars, ledger>>
    /\ IF data.orgId = None \/ data.empId = None
       THEN Reply(w, data, 500, [error |-> ErrIntOfNone])
       ELSE IF ~AllRegisterFields(data)
       THEN Reply(w, data, 400, [error |-> "All fields are required"])
       ELSE LET org_exists == OrgExists(Val(data.orgId))
            IN IF org_exists
               THEN Goto(w, data, "rg_select", [inserted_org |-> {}])
               ELSE Goto(w, data, "rg_org", NoLoc)

\* The INSERT of the organization, held in the handler's open transaction
\* until the commit.
register_org(w) ==
    /\ pc[w] = "rg_org"
    /\ ~OrgInsertWaits(w, Val(req[w].orgId))
    /\ UNCHANGED <<dbVars, envVars, noteVars, procVars, ledger>>
    /\ IF OrgKeyRefuses({OrgRow(req[w])})
       THEN Reply(w, req[w], 500, [error |-> ErrDuplicateKey])
       ELSE Goto(w, req[w], "rg_select", [inserted_org |-> {OrgRow(req[w])}])

\* The SELECT of the employee.
register_select(w) ==
    /\ pc[w] = "rg_select"
    /\ UNCHANGED <<employees, clients, otps, envVars, noteVars, procVars, ledger>>
    /\ IF EmployeeExists(Val(req[w].orgId), Val(req[w].empId))
       THEN /\ Reply(w, req[w], 400, [error |-> "Employee with this empid already exists in this organization"])
            /\ organizations' = Rollback(organizations, loc[w].inserted_org)
       ELSE /\ Goto(w, req[w], "rg_insert", loc[w])
            /\ UNCHANGED organizations

\* The INSERT of the employee and conn.commit().
register_insert(w) ==
    /\ pc[w] = "rg_insert"
    /\ UNCHANGED <<clients, otps, envVars, noteVars, procVars, ledger>>
    /\ IF EmployeeKeyRefuses(Val(req[w].orgId), Val(req[w].empId))
       THEN /\ Reply(w, req[w], 500, [error |-> ErrDuplicateKey])
            /\ organizations' = Rollback(organizations, loc[w].inserted_org)
            /\ UNCHANGED employees
       ELSE /\ organizations' = organizations \cup loc[w].inserted_org
            /\ employees' = employees \cup {EmpRow(req[w])}
            /\ Reply(w, req[w], 200, [message |-> "Registration successful"])

\* --------------------------------------------- POST /api/register-client
\* The statement below without its WHERE clause.
MaxClientIdAllOrgs(orgid) ==
    LET ids == {c.clientid : c \in clients}
    IN IF ids = {} THEN None ELSE Some(CHOOSE m \in ids : \A i \in ids : i <= m)

\* SELECT MAX(clientid) FROM clients WHERE orgid = %s
MaxClientId(orgid) ==
    LET ids == {c.clientid : c \in {x \in clients : x.orgid = orgid}}
    IN IF ids = {} THEN None ELSE Some(CHOOSE m \in ids : \A i \in ids : i <= m)

\* (result[0] or 0) + 1
NewClientId(result) == (IF result = None \/ Val(result) = 0 THEN 0 ELSE Val(result)) + 1

\* data.get("clientPhone", "NA")
ClientPhone(data) == IF data.clientPhone = None THEN Some("NA") ELSE data.clientPhone

ClientRow(data, new_clientid) ==
    [clientid |-> new_clientid, orgid |-> Val(data.orgId), clientname |-> data.clientName,
     clientshortname |-> data.clientShortname, clientphone |-> ClientPhone(data),
     clientemail |-> data.clientEmail]

\* Parsing, validation, the SELECT of the organization and the SELECT MAX
\* (organizations are never deleted, so the two SELECTs read as one).
register_client(w, data) ==
    /\ pc[w] = "idle"
    /\ data.op = "register-client"
    /\ UNCHANGED <<dbVars, envVars, noteVars, procVars, ledger>>
    /\ IF data.orgId = None
       THEN Reply(w, data, 500, [error |-> ErrIntOfNone])
       ELSE IF ~(TruthyInt(data.orgId) /\ TruthyStr(data.clientName) /\ TruthyStr(data.clientEmail))
       THEN Reply(w, data, 400, [error |-> "orgid, clientname, and clientemail are required"])
       ELSE IF ~OrgExists(Val(data.orgId))
       THEN Reply(w, data, 404, [error |-> "Organization not found"])
       ELSE LET new_clientid == NewClientId(MaxClientId(Val(data.orgId)))
            IN /\ new_clientid <= MaxClients
               /\ Goto(w, data, "rc_recheck", [new_clientid |-> new_clientid])

\* The SELECT that looks for a row with the computed id.
register_client_recheck(w) ==
    /\ pc[w] = "rc_recheck"
    /\ UNCHANGED <<dbVars, envVars, noteVars, procVars, ledger>>
    /\ IF ClientExists(Val(req[w].orgId), loc[w].new_clientid)
       THEN Reply(w, req[w], 400, [error |-> "Client with this clientid already exists in this organization"])
       ELSE Goto(w, req[w], "rc_insert", loc[w])

\* The INSERT of the client and conn.commit().
register_client_insert(w) ==
    /\ pc[w] = "rc_insert"
    /\ UNCHANGED <<organizations, employees, otps, envVars, noteVars, procVars, ledger>>
    /\ IF ClientKeyRefuses(Val(req[w].orgId), loc[w].new_clientid)
       THEN /\ Reply(w, req[w], 500, [error |-> ErrDuplicateKey])
            /\ UNCHANGED clients
       ELSE /\ clients' = clients \cup {ClientRow(req[w], loc[w].new_clientid)}
            /\ Reply(w, req[w], 200,
                     [message |-> "Client registered successfully", clientId |-> loc[w].new_clientid])

\* ---------------------------------------------- POST /api/fetch-clients
\* SELECT clientid, clientname, clientshortname FROM clients WHERE orgid = %s
\* as the list of dictionaries of the response (in no particular order).
ClientList(orgid) ==
    {[ClientID |-> c.clientid, ClientName |-> c.clientname, ClientShortname |-> c.clientshortname] :
        c \in {x \in clients : x.orgid = orgid}}

fetch_clients(w, data) ==
    /\ pc[w] = "idle"
    /\ data.op = "fetch-clients"
    /\ UNCHANGED <<dbVars, envVars, noteVars, procVars, ledger>>
    /\ IF data.orgId = None
       THEN Reply(w, data, 500, [error |-> ErrIntOfNone])
       ELSE IF Val(data.orgId) = 0
       THEN Reply(w, data, 400, [error |-> "orgid is required"])
       ELSE Reply(w, data, 200, [clients |-> ClientList(Val(data.orgId))])


\* ----------------------------------------------------------- table notes
\* A string in transit: `kind` says what it is well-formed as ("b64": base64
\* text, "iso": a timestamp in the format %Y-%m-%dT%H:%M:%S.%f, "date": a
\* calendar date), "junk" being well-formed as none of them.
Text(kind, of) == [kind |-> kind, of |-> of]
Junk == Text("junk", 0)

\* bytes
Bytes(n) == [kind |-> "bytes", of |-> n]

ErrIncorrectPadding == "Unexpected error: Incorrect padding"
ErrStrptime == "Unexpected error: time data does not match format '%Y-%m-%dT%H:%M:%S.%f'"

\* base64.b64decode(audionotes) raises / returns
B64DecodeRaises(text) == text.kind # "b64"
B64Decode(text) == Bytes(text.of)

\* base64.b64encode(row[2]).decode("utf-8")
B64Encode(bytes) == Text("b64", bytes.of)

\* datetime.strptime(dateTime, '%Y-%m-%dT%H:%M:%S.%f') raises / returns
StrptimeRaises(text) == text.kind # "iso"
Strptime(text) == text.of

\* row[0].strftime('%Y-%m-%dT%H:%M:%S.%f')
Strftime(datetime) == Text("iso", datetime)

\* DATE(datetime)
DateOf(datetime) == datetime \div DayLength

\* The clock of the runs that save notes.
NoteTick ==
    /\ clock < MaxNoteTime
    /\ clock' = clock + 1
    /\ UNCHANGED <<awareTz, isolation, dbVars, noteVars, procVars, pc, req, loc, last, ledger>>

\* ------------------------------------------ POST /api/save-transcription
\* all([orgid, empid, clientid, transcriptiontext])
AllSaveFields(data) ==
    /\ TruthyInt(data.orgId) /\ TruthyInt(data.empId) /\ TruthyInt(data.clientId)
    /\ TruthyStr(data.transcriptionText)

\* Parsing, validation, the SELECT of the client, the decoding of the audio
\* and datetime.utcnow().
save_transcription(w, data) ==
    /\ pc[w] = "idle"
    /\ data.op = "save-transcription"
    /\ UNCHANGED <<dbVars, envVars, noteVars, procVars, ledger>>
    /\ IF data.orgId = None \/ data.empId = None \/ data.clientId = None
       THEN Reply(w, data, 500, [error |-> ErrIntOfNone])
       ELSE IF ~AllSaveFields(data)
       THEN Reply(w, data, 400, [error |-> "orgid, empid, clientid, and transcriptiontext are required"])
       ELSE IF ~ClientExists(Val(data.orgId), Val(data.clientId))
       THEN Reply(w, data, 404, [error |-> "Invalid clientid for this organization"])
       ELSE IF data.audioData # None /\ B64DecodeRaises(Val(data.audioData))
       THEN Reply(w, data, 500, [error |-> ErrIncorrectPadding])
       ELSE /\ notes_seq + Cardinality({v \in Workers : pc[v] = "st_insert"}) < MaxNotes
            /\ Goto(w, data, "st_insert",
                    [audio_binary |-> IF data.audioData = None THEN None
                                      ELSE Some(B64Decode(Val(data.audioData))),
                     created_at |-> clock])

\* A sequence that hands out the value it returned last once more.
StuckNextval(seq) == seq

\* nextval('notes_seq')
Nextval(seq) == seq + 1

NoteRow(data, meetingid, created_at, audio_binary) ==
    [orgid |-> Val(data.orgId), empid |-> Val(data.empId), clientid |-> Val(data.clientId),
     meetingid |-> meetingid, datetime |-> created_at, audionotes |-> audio_binary,
     textnotes |-> Val(data.transcriptionText)]

\* The INSERT of the note: the sequence advances at once and for good, the row
\* stays with the transaction until it commits.
save_transcription_insert(w) ==
    /\ pc[w] = "st_insert"
    /\ UNCHANGED <<dbVars, envVars, procVars, ledger, notes>>
    /\ notes_seq' = Nextval(notes_seq)
    /\ Goto(w, req[w], "st_commit",
            [inserted_note |-> NoteRow(req[w], notes_seq', loc[w].created_at,
                                       loc[w].audio_binary)])

\* conn.commit() and the answer.
save_transcription_commit(w) ==
    /\ pc[w] = "st_commit"
    /\ UNCHANGED <<dbVars, envVars, procVars, ledger, notes_seq>>
    /\ notes' = notes \cup {loc[w].inserted_note}
    /\ Reply(w, req[w], 200, [message |-> "Transcription saved successfully"])

\* --------------------------------------------------- POST /api/fetch-notes
\* The SELECT without its optional clause on the date.
SelectNotesAnyDate(orgid, empid, clientid, selecteddate) ==
    {n \in notes : n.orgid = orgid /\ n.empid = empid /\ n.clientid = clientid}

\* SELECT .. FROM notes WHERE orgid = %s AND empid = %s AND clientid = %s
\*   [AND DATE(datetime) = %s]
SelectNotes(orgid, empid, clientid, selecteddate) ==
    {n \in notes :
        /\ n.orgid = orgid /\ n.empid = empid /\ n.clientid = clientid
        /\ selecteddate # None => DateOf(n.datetime) = Val(selecteddate).of}

\* ORDER BY datetime DESC: the orders the rows may come in.
OrderByDatetimeDesc(rows) ==
    {sq \in [1 .. Cardinality(rows) -> rows] :
        /\ \A i, j \in 1 .. Cardinality(rows) : i # j => sq[i] # sq[j]
        /\ \A i, j \in 1 .. Cardinality(rows) : i < j => sq[i].datetime >= sq[j].datetime}

\* note_list: the dictionary of a row
NoteEntry(row) ==
    [DateTime |-> Strftime(row.datetime),
     TextNotes |-> row.textnotes,
     AudioNotes |-> IF row.audionotes = None THEN None ELSE Some(B64Encode(Val(row.audionotes)))]

fetch_notes(w, data) ==
    /\ pc[w] = "idle"
    /\ data.op = "fetch-notes"
    /\ UNCHANGED <<dbVars, envVars, noteVars, procVars, ledger>>
    /\ IF data.orgId = None \/ data.empId = None \/ data.clientId = None
       THEN Reply(w, data, 500, [error |-> ErrIntOfNone])
       ELSE IF ~(TruthyInt(data.orgId) /\ TruthyInt(data.empId) /\ TruthyInt(data.clientId))
       THEN Reply(w, data, 400, [error |-> "orgid, empid, and clientid are required"])
       ELSE \E rows \in OrderByDatetimeDesc(SelectNotes(Val(data.orgId), Val(data.empId),
                                                        Val(data.clientId), data.selectedDate)) :
              Reply(w, data, 200, [notes |-> [i \in 1 .. Len(rows) |-> NoteEntry(rows[i])]])

\* --------------------------------------------------- POST /api/update-note
\* all([orgid, empid, clientid, dateTime, newText])
AllUpdateFields(data) ==
    /\ TruthyInt(data.orgId) /\ TruthyInt(data.empId) /\ TruthyInt(data.clientId)
    /\ data.dateTime # None /\ TruthyStr(data.newText)

\* WHERE orgid = %s AND empid = %s AND clientid = %s: the datetime ignored.
MatchesTriple(n, orgid, empid, clientid, dt) ==
    n.orgid = orgid /\ n.empid = empid /\ n.clientid = clientid

\* WHERE orgid = %s AND empid = %s AND clientid = %s AND datetime = %s
Matches(n, orgid, empid, clientid, dt) ==
    n.orgid = orgid /\ n.empid = empid /\ n.clientid = clientid /\ n.datetime = dt

\* UPDATE notes SET textnotes = %s WHERE ..
UpdateNotes(table, newText, orgid, empid, clientid, dt) ==
    {IF Matches(n, orgid, empid, clientid, dt) THEN [n EXCEPT !.textnotes = newText] ELSE n :
        n \in table}

\* cursor.rowcount
Rowcount(table, orgid, empid, clientid, dt) ==
    Cardinality({n \in table : Matches(n, orgid, empid, clientid, dt)})

update_note(w, data) ==
    /\ pc[w] = "idle"
    /\ data.op = "update-note"
    /\ UNCHANGED <<dbVars, envVars, notes_seq, procVars, ledger>>
    /\ IF data.orgId = None \/ data.empId = None \/ data.clientId = None
       THEN /\ Reply(w, data, 500, [error |-> ErrIntOfNone])
            /\ UNCHANGED notes
       ELSE IF ~AllUpdateFields(data)
       THEN /\ Reply(w, data, 400, [error |-> "orgid, empid, clientid, dateTime, and newText are required"])
            /\ UNCHANGED notes
       ELSE IF StrptimeRaises(Val(data.dateTime))
       THEN /\ Reply(w, data, 500, [error |-> ErrStrptime])
            /\ UNCHANGED notes
       ELSE LET orgid == Val(data.orgId)
                empid == Val(data.empId)
                clientid == Val(data.clientId)
                dt == Strptime(Val(data.dateTime))
            IN IF Rowcount(notes, orgid, empid, clientid, dt) = 0
               THEN /\ Reply(w, data, 404, [error |-> "No matching note found to update"])
                    /\ UNCHANGED notes
               ELSE /\ notes' = UpdateNotes(notes, Val(data.newText), orgid, empid, clientid, dt)
                    /\ Reply(w, data, 200, [message |-> "Transcription updated successfully"])

\* ------------------------------------------------------- request bodies
\* The JSON bodies the clients send, by endpoint.
RegisterBody(orgId, empId, v) ==
    [op |-> "register", orgId |-> orgId,
     orgName |-> Some(IF v = 1 THEN "Acme" ELSE "Bolt"),
     shortname |-> Some(IF v = 1 THEN "ACM" ELSE "BLT"),
     address |-> Some(IF v = 1 THEN "1 Main St" ELSE "2 Side St"),
     orgPhone |-> Some(IF v = 1 THEN "555-0100" ELSE "555-0200"),
     orgEmail |-> Some(IF v = 1 THEN "office@acme.example" ELSE "office@bolt.example"),
     empId |-> empId,
     empName |-> Some(IF v = 1 THEN "Ann" ELSE "Bob"),
     empShortname |-> Some(IF v = 1 THEN "AN" ELSE "BO"),
     empPhone |-> Some(IF v = 1 THEN "555-0101" ELSE "555-0201"),
     empEmail |-> Some(IF v = 1 THEN "ann@acme.example" ELSE "bob@bolt.example")]

RequestOtpBody(orgId, empId) == [op |-> "request-otp", orgId |-> orgId, empId |-> empId]

ValidateOtpBody(orgId, empId, otp) ==
    [op |-> "validate-otp", orgId |-> orgId, empId |-> empId, otp |-> otp]

RegisterClientBody(orgId, v) ==
    [op |-> "register-client", orgId |-> orgId,
     clientName |-> Some(IF v = 1 THEN "Carl" ELSE "Dora"),
     clientShortname |-> IF v = 1 THEN Some("CA") ELSE None,
     clientPhone |-> IF v = 1 THEN Some("555-0300") ELSE None,
     clientEmail |-> Some(IF v = 1 THEN "carl@client.example" ELSE "dora@client.example")]

FetchClientsBody(orgId) == [op |-> "fetch-clients", orgId |-> orgId]

\* Bodies of the OTP workflow for organization 1: employees `emps` register,
\* and OTPs are requested and validated for the employees `users`.
OtpBodiesFor(emps, users) ==
    {RegisterBody(Some(1), Some(e), 1) : e \in emps}
    \cup {RequestOtpBody(Some(1), Some(e)) : e \in users}
    \cup {ValidateOtpBody(Some(1), Some(e), Some(StrOf(n))) : e \in users, n \in Codes}

\* Bodies of client registration: organizations 1 and 2.
ClientBodies ==
    {RegisterBody(Some(o), Some(1), o) : o \in OrgIds}
    \cup {RegisterClientBody(Some(o), v) : o \in OrgIds, v \in {1, 2}}
    \cup {RegisterClientBody(None, 1), RegisterClientBody(Some(0), 1)}
    \cup {FetchClientsBody(Some(o)) : o \in OrgIds}
    \cup {FetchClientsBody(None), FetchClientsBody(Some(0))}

\* Bodies of client registration for organization 1 alone.
OneOrgClientBodies ==
    {RegisterBody(Some(1), Some(1), 1)}
    \cup {RegisterClientBody(Some(1), v) : v \in {1, 2}}
    \cup {FetchClientsBody(Some(1))}

SaveBody(orgId, empId, clientId, text, audio) ==
    [op |-> "save-transcription", orgId |-> orgId, empId |-> empId, clientId |-> clientId,
     transcriptionText |-> text, audioData |-> audio]

FetchNotesBody(orgId, empId, clientId, date) ==
    [op |-> "fetch-notes", orgId |-> orgId, empId |-> empId, clientId |-> clientId,
     selectedDate |-> date]

UpdateNoteBody(orgId, empId, clientId, dateTime, newText) ==
    [op |-> "update-note", orgId |-> orgId, empId |-> empId, clientId |-> clientId,
     dateTime |-> dateTime, newText |-> newText]

\* Bodies of the notes endpoints for organization 1, the employees `emps` and
\* the clients 1 and 2; employee 1 records audio, the others send text only.
NoteBodies(emps) ==
    {SaveBody(Some(1), Some(e), Some(c), Some("memo"),
              IF e = 1 THEN Some(Text("b64", 1)) ELSE None) :
        e \in emps, c \in {1, 2}}
    \cup {FetchNotesBody(Some(1), Some(e), Some(1), d) :
            e \in emps,
            d \in {None} \cup {Some(Text("date", k)) : k \in 0 .. (MaxNoteTime \div DayLength)}}
    \cup {UpdateNoteBody(Some(1), Some(e), Some(1), Some(Strftime(t)), Some("edited")) :
            e \in emps, t \in 0 .. MaxNoteTime}

\* Bodies with a required field missing or malformed.
MalformedBodies ==
    {SaveBody(None, Some(1), Some(1), Some("memo"), None),
     SaveBody(Some(1), Some(1), Some(1), None, None),
     SaveBody(Some(1), Some(1), Some(1), Some("memo"), Some(Junk)),
     FetchNotesBody(Some(1), None, Some(1), None),
     FetchNotesBody(Some(1), Some(1), Some(0), None),
     UpdateNoteBody(Some(1), Some(1), None, Some(Strftime(0)), Some("edited")),
     UpdateNoteBody(Some(1), Some(1), Some(1), None, Some("edited")),
     UpdateNoteBody(Some(1), Some(1), Some(1), Some(Junk), Some("edited"))}

\* Bodies of registration: the employees of organization 1 and employee 1 of
\* organization 2, each with two sets of field values.
RegisterBodies ==
    {RegisterBody(Some(1), Some(e), v) : e \in EmpIds, v \in {1, 2}}
    \cup {RegisterBody(Some(2), Some(1), v) : v \in {1, 2}}

\* ------------------------------------------------------- initial states
\* Rows the database may hold before the service starts: the four registry
\* tables are created and may be filled outside this program.  An employee
\* row without an e-mail address can only come from there.
LegacyOrganizations ==
    {[orgid |-> 1, orgname |-> Some("Acme"), shortname |-> Some("ACM"),
      address |-> Some("1 Main St"), phone |-> Some("555-0100"),
      email |-> Some("office@acme.example")]}

LegacyEmployees ==
    {[empid |-> 2, orgid |-> 1, empname |-> Some("Zoe"), empshortname |-> Some("ZO"),
      empphone |-> Some("555-0102"), empemail |-> None]}

\* An employee row whose organization has no row: the tables carry no foreign
\* keys, and the service checks ancestors by hand.
OrphanEmployees ==
    {[empid |-> 1, orgid |-> 2, empname |-> Some("Yan"), empshortname |-> Some("YA"),
      empphone |-> Some("555-0202"), empemail |-> Some("yan@bolt.example")]}

\* A state of the service between requests: the registry tables hold `orgs`,
\* `emps` and `cls`, no OTP is pending and no note is stored, the database
\* runs at one of `levels` and reads created_at back as one of `tzs`, and the
\* process's flag is `flag`.
StartWith(orgs, emps, cls, levels, tzs, flag) ==
    /\ clock = 0
    /\ awareTz \in tzs
    /\ isolation \in levels
    /\ organizations = orgs
    /\ employees = emps
    /\ clients = cls
    /\ otps = {}
    /\ notes = {}
    /\ notes_seq = 0
    /\ db_initialized = flag
    /\ pc = [w \in Workers |-> "idle"]
    /\ req = [w \in Workers |-> NoReq]
    /\ loc = [w \in Workers |-> NoLoc]
    /\ last = NoLast
    /\ ledger = <<>>

\* The state once the process has initialized the schema (its first request
\* has run init_db): the registry tables hold `orgs` and `emps`, the database
\* runs at one of `levels`.
Start(orgs, emps, levels) == StartWith(orgs, emps, {}, levels, BOOLEAN, TRUE)

\* A database whose tables are all empty.
Init == Start({}, {}, IsolationLevels)

\* The same where one transaction runs at a time: the isolation level has
\* nothing to isolate, and one level stands for both.
InitOneAtATime == Start({}, {}, {"read committed"})

\* One transaction at a time on a database that is empty or holds the rows
\* above.
InitLegacy == InitOneAtATime \/ Start(LegacyOrganizations, LegacyEmployees, {"read committed"})

\* A registry as the service fills it: organization 1 with its employee 1 and
\* its client 1.
SeededOrganizations == {OrgRow(RegisterBody(Some(1), Some(1), 1))}
SeededEmployees == {EmpRow(RegisterBody(Some(1), Some(1), 1))}
SeededClients == {ClientRow(RegisterClientBody(Some(1), 1), 1)}

InitNotes ==
    StartWith(SeededOrganizations, SeededEmployees, SeededClients, IsolationLevels, {FALSE}, TRUE)

InitNotesOneAtATime ==
    StartWith(SeededOrganizations, SeededEmployees, SeededClients, {"read committed"}, {FALSE}, TRUE)

\* A database that is empty or holds the orphan employee.
InitRegistry == Init \/ Start({}, OrphanEmployees, IsolationLevels)

\* ------------------------------------------- @app.before_request hooks
\* if not db_initialized
NeedsInit(flag) == ~flag

\* initialize_database finds the flag false and calls init_db; the body of the
\* request waits for its view function.
initialize_database(w, data) ==
    /\ pc[w] = "idle"
    /\ req[w] = NoReq
    /\ NeedsInit(db_initialized)
    /\ Goto(w, data, "ib_init", NoLoc)
    /\ UNCHANGED <<dbVars, envVars, noteVars, procVars, ledger>>

\* init_db: CREATE TABLE IF NOT EXISTS otps and the commit.  It returns (`ok`)
\* and the hook sets the flag, or it raises, the hook logs the failure and
\* lets the request proceed.  Either way the view function is called next.
init_db(w, ok) ==
    /\ pc[w] = "ib_init"
    /\ db_initialized' = IF ok THEN TRUE ELSE db_initialized
    /\ pc' = [pc EXCEPT ![w] = "idle"]
    /\ loc' = [loc EXCEPT ![w] = [init_ok |-> ok]]
    /\ UNCHANGED <<dbVars, envVars, noteVars, req, last, ledger>>

\* The view function of the request `data` is called on worker w: the hook
\* has returned for it, having run init_db or having found the flag true.
Dispatched(w, data) ==
    /\ pc[w] = "idle"
    /\ IF req[w] = NoReq THEN ~NeedsInit(db_initialized) ELSE req[w] = data

\* ------------------------------------------------------- specifications
\* The OTP workflow served by the workers `ws` for the bodies `bodies`.
OtpNext(ws, bodies) ==
    \/ \E w \in ws, data \in bodies : register(w, data)
    \/ \E w \in ws : register_org(w)
    \/ \E w \in ws : register_select(w)
    \/ \E w \in ws : register_insert(w)
    \/ \E w \in ws, data \in bodies : request_otp(w, data)
    \/ \E w \in ws : request_otp_upsert(w)
    \/ \E w \in ws : request_otp_send(w)
    \/ \E w \in ws, data \in bodies : validate_otp(w, data)
    \/ \E w \in ws : validate_otp_check(w)

\* Two workers, requests overlapping freely, within one minute.
NextOtp == OtpNext(Workers, OtpBodiesFor({1}, {1}))

SpecOtp == Init /\ [][NextOtp]_vars

\* Two (orgId, empId) pairs whose digits run into each other: employee 12 of
\* organization 1, registered, and employee 2 of organization 11, who
\* registers through the service.
PairBodies ==
    {RegisterBody(Some(11), Some(2), 2)}
    \cup {RequestOtpBody(Some(o), Some(e)) : <<o, e>> \in {<<1, 12>>, <<11, 2>>}}
    \cup {ValidateOtpBody(Some(o), Some(e), Some(StrOf(n))) :
            <<o, e>> \in {<<1, 12>>, <<11, 2>>}, n \in Codes}

\* The two pairs never share a row, so one isolation level stands for both.
InitPairs ==
    Start({OrgRow(RegisterBody(Some(1), Some(12), 1))}, {EmpRow(RegisterBody(Some(1), Some(12), 1))},
          {"read committed"})

\* One worker serving the two pairs, one request at a time, at one reading of
\* the clock.
NextOtpPairs == OtpNext({1}, PairBodies)

SpecOtpPairs == InitPairs /\ [][NextOtpPairs]_vars

\* One worker (one request at a time) while the minutes pass; employee 2 is
\* never registered through the service.
NextOtpSeq == Tick \/ OtpNext({1}, OtpBodiesFor({1}, EmpIds))

SpecOtpSeq == InitLegacy /\ [][NextOtpSeq]_vars

\* Client registration served by the workers `ws`.
ClientsNext(ws, bodies) ==
    \/ \E w \in ws, data \in bodies : register(w, data)
    \/ \E w \in ws : register_org(w)
    \/ \E w \in ws : register_select(w)
    \/ \E w \in ws : register_insert(w)
    \/ \E w \in ws, data \in bodies : register_client(w, data)
    \/ \E w \in ws : register_client_recheck(w)
    \/ \E w \in ws : register_client_insert(w)
    \/ \E w \in ws, data \in bodies : fetch_clients(w, data)

\* One worker: one request at a time, two organizations.
NextClientsSeq == ClientsNext({1}, ClientBodies)

SpecClientsSeq == InitOneAtATime /\ [][NextClientsSeq]_vars

\* Registration served by the workers `ws`.
RegisterNext(ws, bodies) ==
    \/ \E w \in ws, data \in bodies : register(w, data)
    \/ \E w \in ws : register_org(w)
    \/ \E w \in ws : register_select(w)
    \/ \E w \in ws : register_insert(w)

\* One worker: one registration at a time.
NextRegisterSeq == RegisterNext({1}, RegisterBodies)

SpecRegisterSeq == InitOneAtATime /\ [][NextRegisterSeq]_vars

\* Two workers, registrations overlapping freely.
NextRegister == RegisterNext(Workers, RegisterBodies)

SpecRegister == InitRegistry /\ [][NextRegister]_vars

\* The notes endpoints served by the workers `ws`.
NotesNext(ws, bodies) ==
    \/ \E w \in ws, data \in bodies : save_transcription(w, data)
    \/ \E w \in ws : save_transcription_insert(w)
    \/ \E w \in ws : save_transcription_commit(w)
    \/ \E w \in ws, data \in bodies : fetch_notes(w, data)
    \/ \E w \in ws, data \in bodies : update_note(w, data)

\* One worker: one request at a time, while the clock advances.
NextNotesSeq == NoteTick \/ NotesNext({1}, NoteBodies(EmpIds) \cup MalformedBodies)

SpecNotesSeq == InitNotesOneAtATime /\ [][NextNotesSeq]_vars

\* Two workers, requests overlapping freely, at one reading of the clock.
NextNotes == NotesNext(Workers, NoteBodies(EmpIds))

SpecNotes == InitNotes /\ [][NextNotes]_vars

\* A process that has not initialized the schema yet.
InitProcess ==
    StartWith(SeededOrganizations, SeededEmployees, SeededClients, {"read committed"}, {FALSE}, FALSE)

\* The bodies sent to a fresh process.
ProcessBodies ==
    {SaveBody(Some(1), Some(1), Some(c), Some("memo"), None) : c \in {1, 2}}
    \cup {FetchNotesBody(Some(1), Some(1), Some(1), None)}

\* Two workers of one process from its start: every request passes the hook
\* before its view function runs.
NextProcess ==
    \/ \E w \in Workers, data \in ProcessBodies : initialize_database(w, data)
    \/ \E w \in Workers, ok \in BOOLEAN : init_db(w, ok)
    \/ \E w \in Workers, data \in ProcessBodies : Dispatched(w, data) /\ save_transcription(w, data)
    \/ \E w \in Workers : save_transcription_insert(w)
    \/ \E w \in Workers : save_transcription_commit(w)
    \/ \E w \in Workers, data \in ProcessBodies : Dispatched(w, data) /\ fetch_notes(w, data)

SpecProcess == InitProcess /\ [][NextProcess]_vars

\* Two workers, requests overlapping freely, one organization.
NextClients == ClientsNext(Workers, OneOrgClientBodies)

SpecClients == Init /\ [][NextClients]_vars

\* Every endpoint, two workers, requests overlapping freely while the minutes
\* pass.  The specifications above are restrictions of this one.
Next ==
    \/ Tick
    \/ OtpNext(Workers, OtpBodiesFor(EmpIds, EmpIds))
    \/ ClientsNext(Workers, ClientBodies)

Spec == (Init \/ Start(LegacyOrganizations, LegacyEmployees, IsolationLevels)) /\ [][Next]_vars


\* ================================================================ claims
\* Vocabulary of the claims.
KeyOf(data) == OtpKey(Val(data.orgId), Val(data.empId))

NotFoundBody == [error |-> "OTP not found or expired"]
ExpiredBody == [error |-> "OTP expired"]
MismatchBody == [error |-> "Invalid OTP"]

\* Worker w takes the last step of validate_otp (expiry check, comparison, DELETE).
ValidateChecks(w) == pc[w] = "vo_check" /\ pc'[w] = "idle"

\* Worker w's validate_otp step answers with success.
ValidateSucceeds(w) == ValidateChecks(w) /\ last'.status = 200

\* The response sent last was to a request for `op` and had status `status`.
LastWas(op, status) == last.req.op = op /\ last.status = status

\* The ledger entry of the record issued last.
Newest == ledger[Len(ledger)]

\* ---------------------------------------------------------------- C1
\* C1: a RequestOTP followed at once (well within 5 minutes, nothing in
\* between) by a ValidateOTP with the code just issued succeeds and consumes
\* the record, and a second ValidateOTP with the same code and key is then
\* answered "OTP not found or expired".
C1_RequestThenValidateOnce ==
    [][\A w \in Workers :
         /\ ( /\ ValidateChecks(w)
              /\ LastWas("request-otp", 200)
              /\ KeyOf(last.req) = loc[w].otp_key
              /\ Newest.otp = Val(req[w].otp)
              /\ clock - loc[w].created_at < OtpTtlMinutes )
            => ( /\ last'.status = 200
                 /\ last'.req = req[w]
                 /\ ~\E r \in otps' : r.key = loc[w].otp_key )
         /\ ( LastWas("validate-otp", 200) /\ pc[w] = "idle" /\ req'[w] = last.req )
            => pc'[w] # "vo_check"
         /\ ( LastWas("validate-otp", 200) /\ pc[w] = "idle" /\ pc'[w] = "idle"
              /\ last' # last /\ last'.req = last.req )
            => last'.body = NotFoundBody
    ]_vars

\* Where the created_at column is read back as a naive timestamp, C1 holds.
C1_WithNaiveTimestamps ==
    [][awareTz \/
       \A w \in Workers :
         /\ ( /\ ValidateChecks(w)
              /\ LastWas("request-otp", 200)
              /\ KeyOf(last.req) = loc[w].otp_key
              /\ Newest.otp = Val(req[w].otp)
              /\ clock - loc[w].created_at < OtpTtlMinutes )
            => ( /\ last'.status = 200
                 /\ last'.req = req[w]
                 /\ ~\E r \in otps' : r.key = loc[w].otp_key )
         /\ ( LastWas("validate-otp", 200) /\ pc[w] = "idle" /\ req'[w] = last.req )
            => pc'[w] # "vo_check"
         /\ ( LastWas("validate-otp", 200) /\ pc[w] = "idle" /\ pc'[w] = "idle"
              /\ last' # last /\ last'.req = last.req )
            => last'.body = NotFoundBody
    ]_vars

\* A validation succeeded right after the request, and its repetition was
\* answered "OTP not found or expired".
C1_NaiveWitness ==
    /\ LastWas("validate-otp", 400)
    /\ last.body = NotFoundBody
    /\ Len(ledger) = 1
    /\ ledger[1].uses = 1
    /\ ledger[1].otp = Val(last.req.otp)
    /\ ledger[1].key = KeyOf(last.req)

\* ---------------------------------------------------------------- C2
\* C2: a ValidateOTP succeeds only if, when it checks, the table holds a record
\* for the key whose code is the submitted one and whose age is at most 5
\* minutes.
C2_SuccessOnlyIfPresentEqualFresh ==
    [][\A w \in Workers :
         ValidateSucceeds(w) =>
           \E r \in otps :
             /\ r.key = KeyOf(req[w])
             /\ r.otp = Val(req[w].otp)
             /\ clock - r.created_at <= OtpTtlMinutes
    ]_vars

\* A validation that succeeded on a record exactly 5 minutes old.
C2_Witness ==
    /\ LastWas("validate-otp", 200)
    /\ last.elapsed = OtpTtlMinutes


\* ---------------------------------------------------------------- C3
\* The records of worker w's key that were overwritten, unconsumed, before w
\* read the table, and whose code is the one w submits.
OverwrittenWithSubmittedCode(w) ==
    {j \in 1 .. (loc[w].issue - 1) :
        /\ ledger[j].key = loc[w].otp_key
        /\ ledger[j].overwritten
        /\ ledger[j].otp = Val(req[w].otp)}

\* C3: once a second RequestOTP has overwritten an unconsumed OTP, a
\* ValidateOTP that submits the code of the overwritten record never succeeds.
C3_OverwrittenCodeNeverValidates ==
    [][\A w \in Workers : ValidateSucceeds(w) => OverwrittenWithSubmittedCode(w) = {}]_vars

\* C3 as amended: such a ValidateOTP succeeds only when the record it found,
\* the one issued last for the key, carries that same code again.
C3_OverwrittenCodeOnlyIfDrawnAgain ==
    [][\A w \in Workers :
         ValidateSucceeds(w) =>
           \A j \in OverwrittenWithSubmittedCode(w) : ledger[loc[w].issue].otp = ledger[j].otp
    ]_vars

\* The code of an overwritten record was submitted and refused, the record
\* that replaced it carrying another code.
C3_Witness ==
    /\ LastWas("validate-otp", 400)
    /\ last.body = MismatchBody
    /\ Len(ledger) = 2
    /\ ledger[1].overwritten
    /\ ledger[1].key = KeyOf(last.req)
    /\ ledger[2].key = KeyOf(last.req)
    /\ ledger[1].otp = Val(last.req.otp)
    /\ ledger[2].otp # ledger[1].otp

\* ---------------------------------------------------------------- C4
\* C4: every OTP record issued is validated successfully at most once, also
\* when validations of the same key overlap.
C4_SingleUse == \A i \in 1 .. Len(ledger) : ledger[i].uses <= 1

\* Where the transactions are serializable, C4 holds.
C4_SingleUseIfSerializable == isolation = "serializable" => \A i \in 1 .. Len(ledger) : ledger[i].uses <= 1

\* ---------------------------------------------------------------- C5
\* C5: a ValidateOTP on a record older than 5 minutes is answered "OTP expired"
\* and deletes the record, and the next ValidateOTP for the key (no RequestOTP
\* in between) is answered "OTP not found or expired".
C5_ExpiredThenNotFound ==
    [][\A w \in Workers :
         /\ ( ValidateChecks(w) /\ clock - loc[w].created_at > OtpTtlMinutes )
            => ( /\ last'.status = 400
                 /\ last'.body = ExpiredBody
                 /\ ~\E r \in otps' : r.key = loc[w].otp_key )
         /\ ( /\ last.body = ExpiredBody
              /\ pc[w] = "idle"
              /\ req'[w].op = "validate-otp"
              /\ KeyOf(req'[w]) = KeyOf(last.req) )
            => pc'[w] # "vo_check"
         /\ ( /\ last.body = ExpiredBody
              /\ pc[w] = "idle" /\ pc'[w] = "idle" /\ last' # last
              /\ last'.req.op = "validate-otp"
              /\ KeyOf(last'.req) = KeyOf(last.req) )
            => last'.body = NotFoundBody
    ]_vars

\* Where the created_at column is read back as a naive timestamp, C5 holds.
C5_WithNaiveTimestamps ==
    [][awareTz \/
       \A w \in Workers :
         /\ ( ValidateChecks(w) /\ clock - loc[w].created_at > OtpTtlMinutes )
            => ( /\ last'.status = 400
                 /\ last'.body = ExpiredBody
                 /\ ~\E r \in otps' : r.key = loc[w].otp_key )
         /\ ( /\ last.body = ExpiredBody
              /\ pc[w] = "idle"
              /\ req'[w].op = "validate-otp"
              /\ KeyOf(req'[w]) = KeyOf(last.req) )
            => pc'[w] # "vo_check"
         /\ ( /\ last.body = ExpiredBody
              /\ pc[w] = "idle" /\ pc'[w] = "idle" /\ last' # last
              /\ last'.req.op = "validate-otp"
              /\ KeyOf(last'.req) = KeyOf(last.req) )
            => last'.body = NotFoundBody
    ]_vars

\* ---------------------------------------------------------------- C6
\* C6: a ValidateOTP with a wrong code on an unexpired record is answered
\* "Invalid OTP" and leaves the table as it is, and a ValidateOTP with the
\* right code that follows wrong attempts within the 5 minutes succeeds.
C6_MismatchKeepsRecord ==
    [][\A w \in Workers :
         \A r \in {x \in otps : pc[w] = "vo_check" /\ x.key = loc[w].otp_key} :
           /\ ( /\ ValidateChecks(w)
                /\ clock - r.created_at <= OtpTtlMinutes
                /\ r.otp # Val(req[w].otp) )
              => ( last'.status = 400 /\ last'.body = MismatchBody /\ otps' = otps )
           /\ ( /\ ValidateChecks(w)
                /\ last.body = MismatchBody
                /\ KeyOf(last.req) = r.key
                /\ clock - r.created_at <= OtpTtlMinutes
                /\ r.otp = Val(req[w].otp) )
              => last'.status = 200
    ]_vars

\* Where the created_at column is read back as a naive timestamp, C6 holds.
C6_WithNaiveTimestamps ==
    [][awareTz \/
       \A w \in Workers :
         \A r \in {x \in otps : pc[w] = "vo_check" /\ x.key = loc[w].otp_key} :
           /\ ( /\ ValidateChecks(w)
                /\ clock - r.created_at <= OtpTtlMinutes
                /\ r.otp # Val(req[w].otp) )
              => ( last'.status = 400 /\ last'.body = MismatchBody /\ otps' = otps )
           /\ ( /\ ValidateChecks(w)
                /\ last.body = MismatchBody
                /\ KeyOf(last.req) = r.key
                /\ clock - r.created_at <= OtpTtlMinutes
                /\ r.otp = Val(req[w].otp) )
              => last'.status = 200
    ]_vars

\* ---------------------------------------------------------------- C7
AtMostOnePerKey == \A r1 \in otps, r2 \in otps : r1.key = r2.key => r1 = r2

\* The employee a request names is registered with an e-mail address.
HasEmail(data) ==
    \E e \in employees :
        e.orgid = Val(data.orgId) /\ e.empid = Val(data.empId) /\ TruthyStr(e.empemail)

\* C7: the table never holds two records of one key; the upsert of a
\* RequestOTP leaves, whether or not the key had a record, exactly one record
\* of the key, with the new code and the new timestamp; and every RequestOTP
\* of a registered employee is answered 200.
C7_OneRecordPerKey ==
    /\ [](AtMostOnePerKey)
    /\ [][\A w \in Workers :
            /\ ( pc[w] = "ro_upsert" /\ pc'[w] = "ro_send" )
               => {r \in otps' : r.key = loc[w].otp_key}
                    = {[key |-> loc[w].otp_key, otp |-> loc[w].otp, created_at |-> loc[w].created_at]}
            /\ ( last' # last /\ last'.req.op = "request-otp" /\ HasEmail(last'.req) )
               => last'.status = 200
       ]_vars

\* A RequestOTP answered 200 after it replaced a pending record.
C7_Witness ==
    /\ LastWas("request-otp", 200)
    /\ Len(ledger) = 2
    /\ ledger[1].overwritten
    /\ ledger[1].key = ledger[2].key
    /\ \E r \in otps : r.key = ledger[2].key /\ r.otp = ledger[2].otp

\* ---------------------------------------------------------------- C8
\* C8: whatever becomes of the e-mail (sent, failed, transport not
\* configured), RequestOTP answers 200 with the record already committed, and
\* a ValidateOTP with that code right afterwards succeeds.
C8_IssuedWhateverTheEmail ==
    [][\A w \in Workers :
         /\ ( pc[w] = "ro_send" /\ pc'[w] = "idle" )
            => ( /\ last'.status = 200
                 /\ last'.mail \in {"sent", "failed", "not_configured"}
                 /\ [key |-> loc[w].otp_key, otp |-> loc[w].otp,
                     created_at |-> loc[w].created_at] \in otps )
         /\ ( /\ ValidateChecks(w)
              /\ LastWas("request-otp", 200)
              /\ KeyOf(last.req) = loc[w].otp_key
              /\ Newest.otp = Val(req[w].otp)
              /\ clock - loc[w].created_at <= OtpTtlMinutes )
            => last'.status = 200
    ]_vars

\* The part of C8 about the issuance alone holds.
C8_IssuanceAlone ==
    [][\A w \in Workers :
         ( pc[w] = "ro_send" /\ pc'[w] = "idle" )
            => ( /\ last'.status = 200
                 /\ last'.mail \in {"sent", "failed", "not_configured"}
                 /\ [key |-> loc[w].otp_key, otp |-> loc[w].otp,
                     created_at |-> loc[w].created_at] \in otps )
    ]_vars

\* ---------------------------------------------------------------- C9
\* C9: a RequestOTP naming no registered employee, or an employee without an
\* e-mail address, is answered 404, leaves the otps table as it is and
\* attempts no e-mail.
C9_UnknownEmployeeIs404 ==
    [][( last' # last /\ last'.req.op = "request-otp" /\ ~HasEmail(last'.req) )
         => ( last'.status = 404 /\ otps' = otps /\ last'.mail = "not_attempted" )
    ]_vars

\* The part of C9 about an employee that is not registered holds.
C9_NoEmployeeIs404 ==
    [][( /\ last' # last
         /\ last'.req.op = "request-otp"
         /\ ~EmployeeExists(Val(last'.req.orgId), Val(last'.req.empId)) )
         => ( last'.status = 404 /\ otps' = otps /\ last'.mail = "not_attempted" )
    ]_vars

\* ---------------------------------------------------------------- C10
\* The id the next client of an organization is to get: 1, or 1 + the greatest
\* id stored for it.
ExpectedClientId(orgid) ==
    LET ids == {c.clientid : c \in {x \in clients : x.orgid = orgid}}
    IN IF ids = {} THEN 1 ELSE 1 + (CHOOSE m \in ids : \A i \in ids : i <= m)

\* C10: with one request at a time, a RegisterClient on an existing
\* organization succeeds, returns 1 for the organization's first client and
\* 1 + the greatest stored id after that, and adds exactly that client; a
\* FetchClients returns the stored clients of the organization and no others.
C10_SequentialClientIds ==
    [][\A w \in Workers :
         /\ ( pc[w] = "rc_recheck" => pc'[w] \in {"rc_recheck", "rc_insert"} )
         /\ ( pc[w] = "rc_insert" /\ pc'[w] = "idle" )
            => ( /\ last'.status = 200
                 /\ last'.body.clientId = ExpectedClientId(Val(req[w].orgId))
                 /\ \E c \in clients' :
                      /\ clients' = clients \cup {c}
                      /\ c \notin clients
                      /\ c.orgid = Val(req[w].orgId)
                      /\ c.clientid = last'.body.clientId
                      /\ c.clientname = req[w].clientName )
         /\ ( last' # last /\ last'.req.op = "fetch-clients" /\ last'.status = 200 )
            => ( /\ \A c \in clients :
                      c.orgid = Val(last'.req.orgId) =>
                        [ClientID |-> c.clientid, ClientName |-> c.clientname,
                         ClientShortname |-> c.clientshortname] \in last'.body.clients
                 /\ \A e \in last'.body.clients :
                      \E c \in clients :
                        /\ c.orgid = Val(last'.req.orgId)
                        /\ c.clientid = e.ClientID
                        /\ c.clientname = e.ClientName
                        /\ c.clientshortname = e.ClientShortname
                 /\ clients' = clients )
    ]_vars

\* FetchClients of organization 1 returned its two clients, numbered 1 and 2,
\* while organization 2 holds a client numbered 1.
C10_Witness ==
    /\ LastWas("fetch-clients", 200)
    /\ Val(last.req.orgId) = 1
    /\ {e.ClientID : e \in last.body.clients} = {1, 2}
    /\ \E c \in clients : c.orgid = 2 /\ c.clientid = 1

\* ---------------------------------------------------------------- C11
ClientKeyUnique ==
    \A c1 \in clients, c2 \in clients :
        (c1.orgid = c2.orgid /\ c1.clientid = c2.clientid) => c1 = c2

\* C11: also when RegisterClient requests of one organization overlap, no two
\* stored clients share (orgId, clientId), and a RegisterClient that answers
\* with success returns an id no stored client of the organization had, the id
\* of the row it adds.
C11_ClientKeyUnderOverlap ==
    /\ [](ClientKeyUnique)
    /\ [][\A w \in Workers :
            ( pc[w] = "rc_insert" /\ pc'[w] = "idle" /\ last'.status = 200 )
               => ( /\ ~ClientExists(Val(req[w].orgId), last'.body.clientId)
                    /\ \E c \in clients' :
                         /\ c \notin clients
                         /\ c.orgid = Val(req[w].orgId)
                         /\ c.clientid = last'.body.clientId )
       ]_vars

\* Two RegisterClients computed the same id, and the one that wrote second was
\* refused.
C11_Witness ==
    /\ last.req.op = "register-client"
    /\ last.status = 500
    /\ last.body = [error |-> ErrDuplicateKey]
    /\ Cardinality(clients) = 1

\* ---------------------------------------------------------------- C12
RegisterLabels == {"rg_org", "rg_select", "rg_insert"}

\* Worker w's register ends with this step, after it reached the database.
RegisterEnds(w) == pc[w] \in RegisterLabels /\ pc'[w] = "idle"

RegistryUnchanged == organizations' = organizations /\ employees' = employees

\* C12: a register that reports success leaves the organization's row and the
\* new employee's row stored; a register that reports an error, and every step
\* of a register before its last, leaves organizations and employees as they
\* are (an organization inserted by a failing request is not left behind).
C12_RegisterAllOrNothing ==
    [][\A w \in Workers :
         /\ ( RegisterEnds(w) /\ last'.status = 200 )
            => ( /\ \E o \in organizations' : o.orgid = Val(req[w].orgId)
                 /\ EmpRow(req[w]) \in employees'
                 /\ EmpRow(req[w]) \notin employees
                 /\ employees' = employees \cup {EmpRow(req[w])}
                 /\ organizations' \in {organizations, organizations \cup {OrgRow(req[w])}} )
         /\ ( RegisterEnds(w) /\ last'.status # 200 ) => RegistryUnchanged
         /\ ( pc'[w] \in RegisterLabels /\ pc'[w] # pc[w] ) => RegistryUnchanged
         /\ ( pc' = pc /\ last' # last /\ last'.req.op = "register" ) => RegistryUnchanged
    ]_vars

\* A register that had inserted its organization found the employee stored
\* already, reported the conflict, and the organization is not stored.
C12_Witness ==
    /\ LastWas("register", 400)
    /\ last.body = [error |-> "Employee with this empid already exists in this organization"]
    /\ ~OrgExists(Val(last.req.orgId))
    /\ EmployeeExists(Val(last.req.orgId), Val(last.req.empId))

\* ---------------------------------------------------------------- C13
\* The organization / the employee worker w's register names is stored.
OrgStored(w) == \E o \in organizations : o.orgid = Val(req[w].orgId)
EmpStored(w) ==
    \E e \in employees : e.orgid = Val(req[w].orgId) /\ e.empid = Val(req[w].empId)

ConflictBody == [error |-> "Employee with this empid already exists in this organization"]

\* C13: no step removes or changes a stored organization or employee row; and,
\* one request at a time, a register on a stored orgId leaves organizations as
\* it is, answers 200 and adds the employee's row alone when the employee is
\* new, and answers 400 (Conflict) with employees unchanged when it is stored.
C13_ExistingOrgUntouched ==
    [][/\ organizations \subseteq organizations'
       /\ employees \subseteq employees'
       /\ \A w \in Workers :
            ( RegisterEnds(w) /\ OrgStored(w) )
               => /\ organizations' = organizations
                  /\ ~EmpStored(w) => ( /\ last'.status = 200
                                        /\ employees' = employees \cup {EmpRow(req[w])}
                                        /\ EmpRow(req[w]) \notin employees )
                  /\ EmpStored(w) => ( /\ last'.status = 400
                                       /\ last'.body = ConflictBody
                                       /\ employees' = employees )
    ]_vars

\* A register whose organization fields differ from the stored ones was
\* answered with the conflict, the stored employee differing from the
\* submitted one too.
C13_Witness ==
    /\ LastWas("register", 400)
    /\ last.body = ConflictBody
    /\ \E o \in organizations : o.orgid = Val(last.req.orgId) /\ o.orgname # last.req.orgName
    /\ \E e \in employees :
         /\ e.orgid = Val(last.req.orgId)
         /\ e.empid = Val(last.req.empId)
         /\ e.empname # last.req.empName

\* ---------------------------------------------------------------- C14
\* The (orgId, clientId) of a body is a stored client.
ClientStored(data) ==
    \E c \in clients : c.orgid = Val(data.orgId) /\ c.clientid = Val(data.clientId)

\* A save-transcription body with its four required fields.
SaveWellFormed(data) ==
    /\ data.op = "save-transcription"
    /\ data.orgId # None /\ data.empId # None /\ data.clientId # None
    /\ Val(data.orgId) # 0 /\ Val(data.empId) # 0 /\ Val(data.clientId) # 0
    /\ data.transcriptionText # None

\* A request was answered in this step without any further step of its handler.
AnsweredAtOnce == pc' = pc /\ last' # last

\* C14: a SaveTranscription whose (orgId, clientId) is no stored client is
\* answered 404 and leaves the notes as they are; one whose client is stored
\* goes on to its INSERT, whose commit answers 200 and adds exactly one note, with the
\* submitted text and triple, all other notes staying as they are.
C14_SaveNeedsClient ==
    [][/\ ( AnsweredAtOnce /\ SaveWellFormed(last'.req) /\ ~ClientStored(last'.req) )
          => ( last'.status = 404 /\ notes' = notes /\ notes_seq' = notes_seq )
       /\ \A w \in Workers :
            /\ ( pc[w] = "idle" /\ pc'[w] = "st_insert" ) => ClientStored(req'[w])
            /\ ( pc[w] = "st_commit" /\ pc'[w] = "idle" )
               => /\ last'.status = 200
                  /\ Cardinality(notes') = Cardinality(notes) + 1
                  /\ \E n \in notes' :
                       /\ n \notin notes
                       /\ notes' = notes \cup {n}
                       /\ n.textnotes = Val(req[w].transcriptionText)
                       /\ n.orgid = Val(req[w].orgId)
                       /\ n.empid = Val(req[w].empId)
                       /\ n.clientid = Val(req[w].clientId)
    ]_vars

\* A save for a client that is not registered was refused while a note of a
\* registered client is stored.
C14_Witness ==
    /\ LastWas("save-transcription", 404)
    /\ ~ClientStored(last.req)
    /\ notes # {}

\* ---------------------------------------------------------------- C15
\* An update-note body with its five required fields, the dateTime well-formed.
UpdateWellFormed(data) ==
    /\ data.op = "update-note"
    /\ data.orgId # None /\ data.empId # None /\ data.clientId # None
    /\ Val(data.orgId) # 0 /\ Val(data.empId) # 0 /\ Val(data.clientId) # 0
    /\ data.dateTime # None /\ data.newText # None
    /\ Val(data.dateTime).kind = "iso"

\* The stored notes the tuple of an update-note body names.
Named(data) ==
    {n \in notes :
        /\ n.orgid = Val(data.orgId)
        /\ n.empid = Val(data.empId)
        /\ n.clientid = Val(data.clientId)
        /\ n.datetime = Val(data.dateTime).of}

\* C15: an UpdateNote whose tuple names no stored note (a datetime that
\* differs by one tick included) is answered 404 and changes no note; one
\* whose tuple names notes is answered 200 and sets the text of those notes,
\* every other field and every other note staying as it is, and the number of
\* notes too.
C15_UpdateExactMatchOnly ==
    [][( AnsweredAtOnce /\ UpdateWellFormed(last'.req) )
         => /\ Named(last'.req) = {} => ( last'.status = 404 /\ notes' = notes )
            /\ Named(last'.req) # {}
               => /\ last'.status = 200
                  /\ Cardinality(notes') = Cardinality(notes)
                  /\ \A n \in notes \ Named(last'.req) : n \in notes'
                  /\ \A n \in Named(last'.req) :
                       [n EXCEPT !.textnotes = Val(last'.req.newText)] \in notes'
    ]_vars

\* An update was answered 200 while a note of the same triple, saved one tick
\* apart from the updated one, keeps its text.
C15_Witness ==
    /\ LastWas("update-note", 200)
    /\ \E n \in notes, m \in notes :
         /\ n.orgid = Val(last.req.orgId) /\ m.orgid = n.orgid
         /\ n.empid = Val(last.req.empId) /\ m.empid = n.empid
         /\ n.clientid = Val(last.req.clientId) /\ m.clientid = n.clientid
         /\ n.datetime = Val(last.req.dateTime).of
         /\ n.textnotes = Val(last.req.newText)
         /\ m.datetime = n.datetime + 1
         /\ m.textnotes # Val(last.req.newText)

\* ---------------------------------------------------------------- C16
StoredDataUnchanged ==
    /\ organizations' = organizations /\ employees' = employees /\ clients' = clients
    /\ otps' = otps /\ notes' = notes /\ notes_seq' = notes_seq

\* C16: a request with a required field missing or malformed (an absent id, a
\* missing text, an unparsable dateTime, malformed base64 audio) is answered
\* 400 and changes no stored data.
C16_MalformedIs400 ==
    [][( AnsweredAtOnce /\ last'.req \in MalformedBodies )
         => ( last'.status = 400 /\ StoredDataUnchanged )
    ]_vars

\* The part of C16 that holds: such a request changes no stored data, and it is
\* answered 400 when its ids are all present and the malformed field is a
\* missing one or an id of 0.
C16_MalformedChangesNothing ==
    [][( AnsweredAtOnce /\ last'.req \in MalformedBodies )
         => /\ StoredDataUnchanged
            /\ last'.status \in {400, 500}
            /\ ( /\ last'.req.orgId # None /\ last'.req.empId # None
                 /\ last'.req.clientId # None
                 /\ last'.req.op = "save-transcription" => last'.req.audioData # Some(Junk)
                 /\ last'.req.op = "update-note" => last'.req.dateTime # Some(Junk) )
               => last'.status = 400
    ]_vars

\* ---------------------------------------------------------------- C17
\* C17: every stored note names a stored organization, a stored employee of
\* that organization and a stored client of that organization.
C17_NotesHaveAncestors ==
    \A n \in notes :
        /\ \E o \in organizations : o.orgid = n.orgid
        /\ \E m \in employees : m.orgid = n.orgid /\ m.empid = n.empid
        /\ \E c \in clients : c.orgid = n.orgid /\ c.clientid = n.clientid

\* The part of C17 that holds: every stored note names a stored client.
C17_NotesHaveClient ==
    \A n \in notes : \E c \in clients : c.orgid = n.orgid /\ c.clientid = n.clientid

\* ---------------------------------------------------------------- C18
\* The meetingIds that are taken: those of the stored notes and those of the
\* notes inserted by transactions that have not committed yet.
TakenMeetingIds ==
    {n.meetingid : n \in notes}
        \cup {loc[v].inserted_note.meetingid : v \in {u \in Workers : pc[u] = "st_commit"}}

\* C18: no two stored notes share a meetingId, whatever their organization,
\* employee and client; and the meetingId a save draws at its INSERT is
\* strictly larger than the meetingId of every note stored by then (so of
\* every save that completed before this one started) and of every note
\* another save has inserted and not yet committed, whatever failed or
\* overlapping saves came in between; the note it commits carries that
\* meetingId.
C18_MeetingIdsUniqueIncreasing ==
    /\ [](\A n, m \in notes : n.meetingid = m.meetingid => n = m)
    /\ [][\A w \in Workers :
            /\ ( pc[w] = "st_insert" /\ pc'[w] = "st_commit" )
               => \A k \in TakenMeetingIds : loc'[w].inserted_note.meetingid > k
            /\ ( pc[w] = "st_commit" /\ pc'[w] = "idle" )
               => notes' = notes \cup {loc[w].inserted_note}
       ]_vars

\* A save has committed its note while an overlapping save for another
\* employee, which drew the smaller meetingId, has yet to commit.
C18_Witness ==
    \E w \in Workers, n \in notes :
        /\ pc[w] = "st_commit"
        /\ loc[w].inserted_note.meetingid < n.meetingid
        /\ loc[w].inserted_note.empid # n.empid
        /\ LastWas("save-transcription", 200)

\* ---------------------------------------------------------------- C19
\* A fetch-notes body with its three ids.
FetchWellFormed(data) ==
    /\ data.op = "fetch-notes"
    /\ data.orgId # None /\ data.empId # None /\ data.clientId # None
    /\ Val(data.orgId) # 0 /\ Val(data.empId) # 0 /\ Val(data.clientId) # 0

\* The stored notes of the triple of a fetch-notes body and, when it gives a
\* date, of that calendar date.
Wanted(data) ==
    {n \in notes :
        /\ n.orgid = Val(data.orgId)
        /\ n.empid = Val(data.empId)
        /\ n.clientid = Val(data.clientId)
        /\ data.selectedDate # None => n.datetime \div DayLength = Val(data.selectedDate).of}

\* `out` lists the notes `rows`, each of them once and nothing else.
ListsExactly(out, rows) ==
    /\ Len(out) = Cardinality(rows)
    /\ \E sq \in [1 .. Len(out) -> rows] :
         /\ \A i, j \in 1 .. Len(out) : i # j => sq[i] # sq[j]
         /\ \A i \in 1 .. Len(out) :
              /\ out[i].DateTime = Text("iso", sq[i].datetime)
              /\ out[i].TextNotes = sq[i].textnotes
              /\ out[i].AudioNotes = IF sq[i].audionotes = None THEN None
                                     ELSE Some(B64Encode(Val(sq[i].audionotes)))

\* C19: a FetchNotes with its three ids is answered 200 with exactly the
\* stored notes of the requested (orgId, empId, clientId) that, when a date is
\* given, fall on that calendar date, in descending order of datetime; the list
\* is empty when there are none, and no stored data changes.
C19_FetchNotesExact ==
    [][( AnsweredAtOnce /\ FetchWellFormed(last'.req) )
         => /\ last'.status = 200
            /\ StoredDataUnchanged
            /\ ListsExactly(last'.body.notes, Wanted(last'.req))
            /\ \A i, j \in 1 .. Len(last'.body.notes) :
                 i < j => last'.body.notes[i].DateTime.of >= last'.body.notes[j].DateTime.of
            /\ Wanted(last'.req) = {} => last'.body.notes = << >>
    ]_vars

\* A fetch with a date was answered with the one note of that date while a
\* note of the same triple saved on another date is stored.
C19_Witness ==
    /\ LastWas("fetch-notes", 200)
    /\ last.req.selectedDate # None
    /\ Len(last.body.notes) = 1
    /\ Cardinality(Wanted(last.req)) = 1
    /\ Cardinality(Wanted([last.req EXCEPT !.selectedDate = None])) = 2

\* A fetch without a date was answered with two notes saved at different
\* times, the later one first.
C19_OrderWitness ==
    /\ LastWas("fetch-notes", 200)
    /\ Len(last.body.notes) = 2
    /\ last.body.notes[1].DateTime.of > last.body.notes[2].DateTime.of

\* ---------------------------------------------------------------- C20
\* Worker w's init_db ends in this step, with success or with a failure.
InitDbEnds(w) == pc[w] = "ib_init" /\ pc'[w] = "idle"

\* C20: the schema-initialized flag is set at most once (the hook sets it
\* only while it is false), it never goes back to false, it changes only at a
\* successful init_db, and once it is true no request runs init_db; a failed
\* init_db leaves the flag as it was and the request's view function is called
\* next; a request that finds the flag false runs init_db again.  Two requests
\* may overlap.
C20_FlagSetOnce ==
    /\ [](db_initialized => \A w \in Workers : pc[w] # "ib_init")
    /\ [][/\ db_initialized => db_initialized'
          /\ db_initialized' # db_initialized
             => \E w \in Workers : InitDbEnds(w) /\ loc'[w].init_ok
          /\ \A w \in Workers :
               /\ ( InitDbEnds(w) /\ loc'[w].init_ok ) => ~db_initialized
               /\ ( InitDbEnds(w) /\ ~loc'[w].init_ok )
                  => ( db_initialized' = db_initialized /\ req'[w] = req[w] )
               /\ ( pc[w] = "idle" /\ req[w] = NoReq /\ pc'[w] # "idle" /\ ~db_initialized )
                  => pc'[w] = "ib_init"
       ]_vars

\* What holds of C20 when requests overlap: the flag never goes back to
\* false and changes only at a successful init_db; a request that arrives once
\* the flag is true does not run init_db; a failed init_db leaves the flag as
\* it was and the request goes on to its view function; a request that finds
\* the flag false runs init_db.
C20_FlagOnlyRises ==
    /\ [](\A w \in Workers :
            ( pc[w] = "idle" /\ req[w] # NoReq )
               => ( loc[w] \in {[init_ok |-> TRUE], [init_ok |-> FALSE]}
                    /\ ( loc[w].init_ok => db_initialized ) ))
    /\ [][/\ db_initialized => db_initialized'
          /\ db_initialized' # db_initialized
             => \E w \in Workers : InitDbEnds(w) /\ loc'[w].init_ok
          /\ \A w \in Workers :
               /\ ( pc[w] = "idle" /\ pc'[w] = "ib_init" ) => ( req[w] = NoReq /\ ~db_initialized )
               /\ ( InitDbEnds(w) /\ ~loc'[w].init_ok )
                  => ( db_initialized' = db_initialized /\ req'[w] = req[w] )
               /\ ( pc[w] = "idle" /\ req[w] = NoReq /\ pc'[w] # "idle" /\ ~db_initialized )
                  => pc'[w] = "ib_init"
       ]_vars

\* Every init_db so far has failed, a view function has stored a note all the
\* same, and the next request runs init_db again.
C20_RetryWitness ==
    /\ ~db_initialized
    /\ notes # {}
    /\ \E w \in Workers : pc[w] = "ib_init"

\* The flag is true and a request that found it false is running init_db.
C20_OverlapWitness ==
    /\ db_initialized
    /\ \E w \in Workers : pc[w] = "ib_init"

\* ---------------------------------------------------------------- C21
\* Worker w's validate_otp takes its last step with a code other than the
\* stored one on a record older than 5 minutes.
WrongCodeOnOldRecord(w) ==
    /\ ValidateChecks(w)
    /\ clock - loc[w].created_at > OtpTtlMinutes
    /\ loc[w].stored_otp # Val(req[w].otp)

\* C21: a ValidateOTP with a wrong code on a record older than 5 minutes is
\* answered "OTP expired", not "Invalid OTP", and deletes the record: the
\* expiry check comes before the comparison of the codes.
C21_ExpiryBeforeComparison ==
    [][\A w \in Workers :
         WrongCodeOnOldRecord(w)
            => ( /\ last'.status = 400
                 /\ last'.body = ExpiredBody
                 /\ ~\E r \in otps' : r.key = loc[w].otp_key )
    ]_vars

\* Where the created_at column is read back as a naive timestamp, C21 holds.
C21_WithNaiveTimestamps ==
    [][awareTz \/
       \A w \in Workers :
         WrongCodeOnOldRecord(w)
            => ( /\ last'.status = 400
                 /\ last'.body = ExpiredBody
                 /\ ~\E r \in otps' : r.key = loc[w].otp_key )
    ]_vars

\* With naive timestamps, a wrong code submitted for a record older than 5
\* minutes was answered "OTP expired" and the record of the key is gone.
C21_NaiveWitness ==
    /\ ~awareTz
    /\ LastWas("validate-otp", 400)
    /\ last.body = ExpiredBody
    /\ last.elapsed > OtpTtlMinutes
    /\ CurrentIssue(KeyOf(last.req)) # 0
    /\ ledger[CurrentIssue(KeyOf(last.req))].otp # Val(last.req.otp)
    /\ ~\E r \in otps : r.key = KeyOf(last.req)

\* ---------------------------------------------------------------- C22
\* Ids whose decimal digits run into each other, and a negative one.
KeyIds == {-2, 1, 2, 11, 12}

\* The requests that take a step: the one of the worker that moves, or the
\* one that was answered at once.
ActingRequests ==
    {IF pc[w] = "idle" THEN req'[w] ELSE req[w] : w \in {v \in Workers : pc'[v] # pc[v]}}
        \cup (IF pc' = pc THEN {last'.req} ELSE {})

\* C22: the key strings of distinct (orgId, empId) pairs are distinct (there
\* are as many keys as pairs); a step
\* of a RequestOTP or ValidateOTP creates, overwrites and deletes no OTP
\* record but that of its own pair, a ValidateOTP reads the record of its own
\* pair, no other request touches the OTP records; and every OTP record
\* belongs to a registered employee.
C22_OtpPerPair ==
    /\ [](Cardinality({OtpKey(a, b) : a \in KeyIds, b \in KeyIds})
            = Cardinality(KeyIds \X KeyIds))
    /\ [](\A r \in otps : \E e \in employees : r.key = OtpKey(e.orgid, e.empid))
    /\ [][/\ \A data \in ActingRequests :
               IF data.op \in {"request-otp", "validate-otp"}
               THEN \A r \in (otps \ otps') \cup (otps' \ otps) : r.key = KeyOf(data)
               ELSE otps' = otps
          /\ \A w \in Workers :
               ( pc[w] = "idle" /\ pc'[w] = "vo_check" )
                  => \E r \in otps :
                       /\ r.key = KeyOf(req'[w])
                       /\ loc'[w].stored_otp = r.otp
                       /\ loc'[w].created_at = r.created_at
       ]_vars

\* Both pairs hold an OTP record, and a ValidateOTP of one pair has just
\* consumed its own, the record of the other pair still in place.
C22_Witness ==
    /\ LastWas("validate-otp", 200)
    /\ Len(ledger) = 2
    /\ ledger[1].key # ledger[2].key
    /\ ~\E r \in otps : r.key = KeyOf(last.req)
    /\ \E r \in otps : r.key # KeyOf(last.req)

====
